---- MODULE Spec2Model ----
(***************************************************************************)
(* Model of the Minecraft server manager (src/manager/server.js) and of    *)
(* the events its dashboard client (src/manager/public/app.js) handles.    *)
(*                                                                         *)
(* The supervisor is one Node.js event loop: every handler below runs to   *)
(* completion, so each handler is one atomic action.  The environment is   *)
(* the viewers (browser sockets), the child process and the timer queue.   *)
(*                                                                         *)
(* Text is modelled as a sequence of tokens: a console line is a tuple of  *)
(* strings, and line.includes(t) asks whether token t occurs in it.        *)
(***************************************************************************)
EXTENDS Integers, Sequences, FiniteSets, TLC

\* ---------------------------------------------------------------- bounds
MaxSockets == 2      \* sockets that ever connect
MaxLines == 2        \* non-blank output lines the children emit (Spec)
MaxCtl == 2          \* start / stop / restart / command events the viewers send
MaxChunk == 2        \* lines in one 'data' chunk
MaxFileLines == 2    \* lines of a properties file (SpecProps)
HistLines == 502     \* output lines emitted in SpecHist

\* ------------------------------------------------------ program constants
MAX_HISTORY == 500

NoProc == 0          \* minecraftProcess = null

Sockets == 1..MaxSockets
Launches == 1..(MaxCtl + 1)   \* each launch takes a start event

VARIABLES
    minecraftProcess,  \* the handle: NoProc or the launch it refers to
    serverStatus,      \* 'stopped' | 'starting' | 'running' | 'stopping' | 'restarting'
    consoleHistory,    \* sequence of lines, oldest first
    proc,              \* launch -> "none" | "running" | "failed" | "errored" | "closed"
    closeListeners,    \* launch -> sockets whose restart added a 'close' listener
    timers,            \* pending setTimeout callbacks (the socket each closes over)
    stdin,             \* launch -> what its open stdin pipe was written
    sock,              \* socket -> "fresh" | "connected" | "closed"
    emitted,           \* socket -> events the last handler sent to it, in order
    statusSeen,        \* socket -> the status it was sent last
    linesSeen,         \* socket -> the output lines it was sent, in order
    inserted,          \* number of lines pushed to consoleHistory so far
    connAt,            \* socket -> the value of inserted when it connected
    ctlLeft,           \* control events the viewers may still send
    lastEvent          \* the handler that ran last

vars == <<minecraftProcess, serverStatus, consoleHistory, proc,
          closeListeners, timers, stdin, sock, emitted, statusSeen, linesSeen,
          inserted, connAt, ctlLeft, lastEvent>>

\* ------------------------------------------------------------------ text
Min(a, b) == IF a < b THEN a ELSE b

\* String.prototype.includes, on tokens
Includes(line, tok) == \E i \in 1..Len(line) : line[i] = tok

\* l.trim() is truthy: the line has a non-blank token
NonBlank(line) == \E i \in 1..Len(line) : line[i] # " "

ReadyLine == <<"Done", "For help">>
DoneLine == <<"Done">>
PlainLine == <<"x">>
BlankLine == <<" ">>

\* the lines a child may print on stdout and on stderr
OutLines == {ReadyLine, DoneLine, BlankLine}
ErrLines == {PlainLine, BlankLine}

\* data.toString().split('\n'): the chunks a 'data' event may carry
ChunksOf(lines) == UNION {[1..n -> lines] : n \in 1..MaxChunk}

\* exit codes a 'close' event may carry
ExitCodes == {0, 1}
SpawnFailCodes == {-2}     \* the code of the 'close' that follows a failed spawn

CodeStr(code) == ToString(code)

Commands == {"say hi", "list"}

\* ---------------------------------------------------------------- events
Ev(name, data) == <<name, data>>
EvName(e) == e[1]
EvData(e) == e[2]

AlreadyRunning == <<"[Manager]", "Server is already running!">>
NotRunning == <<"[Manager]", "Server is not running!">>
StartingNotice == <<"[Manager]", "Starting Minecraft server...">>
StoppingNotice == <<"[Manager]", "Stopping server...">>
RestartingNotice == <<"[Manager]", "Restarting server...">>
StoppedNotice(code) == <<"[Manager]", "Server stopped with code", CodeStr(code)>>
ErrorNotice == <<"[Manager]", "Error:", "spawn java ENOENT">>
ErrLine(line) == <<"[ERROR]">> \o line
Echo(cmd) == <<">", cmd>>

\* nothing sent yet
EmitNone == [s \in Sockets |-> <<>>]

\* socket.emit(name, data): to that socket only (dropped once it is closed)
SocketEmit(d, s, name, data) ==
    IF sock[s] = "connected"
    THEN [d EXCEPT ![s] = Append(@, Ev(name, data))]
    ELSE d

\* io.emit(name, data): to every connected socket
IoEmit(d, name, data) ==
    [s \in Sockets |-> IF sock[s] = "connected"
                       THEN Append(d[s], Ev(name, data))
                       ELSE d[s]]

\* ------------------------------------------------- configuration reader
\* s.split(sep), on a sequence of characters
RECURSIVE SplitAcc(_, _, _, _)
SplitAcc(s, sep, i, cur) ==
    IF i > Len(s) THEN <<cur>>
    ELSE IF s[i] = sep THEN <<cur>> \o SplitAcc(s, sep, i + 1, <<>>)
    ELSE SplitAcc(s, sep, i + 1, Append(cur, s[i]))

Split(s, sep) == SplitAcc(s, sep, 1, <<>>)

\* parts.join(sep)
RECURSIVE Join(_, _)
Join(parts, sep) ==
    IF parts = <<>> THEN <<>>
    ELSE IF Len(parts) = 1 THEN parts[1]
    ELSE parts[1] \o <<sep>> \o Join(Tail(parts), sep)

WhiteSpace == {" ", "\t", "\r"}

RECURSIVE TrimLeft(_)
TrimLeft(s) ==
    IF s # <<>> /\ s[1] \in WhiteSpace THEN TrimLeft(Tail(s)) ELSE s

RECURSIVE TrimRight(_)
TrimRight(s) ==
    IF s # <<>> /\ s[Len(s)] \in WhiteSpace
    THEN TrimRight(SubSeq(s, 1, Len(s) - 1)) ELSE s

\* String.prototype.trim
Trim(s) == TrimRight(TrimLeft(s))

EmptyProps == [k \in {} |-> <<>>]

\* props[key] = value
PutProp(props, key, value) ==
    [k \in DOMAIN props \cup {key} |-> IF k = key THEN value ELSE props[k]]

\* the forEach body of getServerProperties, for one line
PropsLine(props, line) ==
    IF line # <<>> /\ line[1] # "#"
    THEN LET parts == Split(line, "=")
             key == parts[1]
         IN IF key # <<>>
            THEN PutProp(props, Trim(key), Trim(Join(Tail(parts), "=")))
            ELSE props
    ELSE props

RECURSIVE PropsLines(_, _)
PropsLines(props, lines) ==
    IF lines = <<>> THEN props
    ELSE PropsLines(PropsLine(props, Head(lines)), Tail(lines))

\* getServerProperties whose catch returns the error as an entry
getServerPropertiesError(file) ==
    IF file.exists
    THEN PropsLines(EmptyProps, Split(file.content, "\n"))
    ELSE PutProp(EmptyProps, <<"e", "r", "r", "o", "r">>,
                 <<"E", "N", "O", "E", "N", "T">>)

\* getServerProperties(): {} when the read throws
getServerProperties(file) ==
    IF file.exists
    THEN PropsLines(EmptyProps, Split(file.content, "\n"))
    ELSE EmptyProps

\* server.properties as a read finds it: unreadable, or its characters
MissingFile == [exists |-> FALSE, content |-> <<>>]
SampleFile == [exists |-> TRUE,
               content |-> <<"#", "c", "\n", "a", "=", "b", "=", "c", "\n">>]
PropsFiles == {MissingFile, SampleFile}

\* lines a properties file is made of; the last is the blank line of a file
\* with CRLF line ends, as split('\n') leaves it
MotdLine == <<"m", "o", "t", "d", "=", "H", "e", "l", "l", "o", " ",
              "W", "o", "r", "l", "d">>
AbcLine == <<"a", "=", "b", "=", "c">>
CommentLine == <<"#", "c", "o", "m", "m", "e", "n", "t">>
EmptyLine == <<>>
NoKeyLine == <<"=", "x">>
CrLine == <<"\r">>
TestLines == {MotdLine, AbcLine, CommentLine, EmptyLine, NoKeyLine, CrLine}

\* every readable file of 1..MaxFileLines of these lines, and the unreadable one
TestFiles ==
    {MissingFile} \cup
    {[exists |-> TRUE, content |-> Join(ls, "\n")] :
        ls \in UNION {[1..n -> TestLines] : n \in 1..MaxFileLines}}

\* ------------------------------------------------------ console history
\* PushHistory with pop() for shift(): the newest line is the one dropped
PushHistoryPop(h, line) ==
    LET h2 == Append(h, line)
    IN IF Len(h2) > MAX_HISTORY THEN SubSeq(h2, 1, Len(h2) - 1) ELSE h2

\* consoleHistory.push(line); if (length > MAX_HISTORY) consoleHistory.shift()
PushHistory(h, line) ==
    LET h2 == Append(h, line)
    IN IF Len(h2) > MAX_HISTORY THEN Tail(h2) ELSE h2

\* StdoutLines that sets the status on a ready line and broadcasts nothing
RECURSIVE StdoutLinesQuiet(_, _)
StdoutLinesQuiet(lines, st) ==
    IF lines = <<>> THEN st
    ELSE LET line == Head(lines)
             ready == Includes(line, "Done") /\ Includes(line, "For help")
         IN StdoutLinesQuiet(Tail(lines),
                [h |-> PushHistory(st.h, line),
                 d |-> IoEmit(st.d, "console", line),
                 status |-> IF ready THEN "running" ELSE st.status])

\* lines.forEach of the stdout handler, on [h, d, status]
RECURSIVE StdoutLines(_, _)
StdoutLines(lines, st) ==
    IF lines = <<>> THEN st
    ELSE LET line == Head(lines)
             h2 == PushHistory(st.h, line)
             d2 == IoEmit(st.d, "console", line)
             ready == Includes(line, "Done") /\ Includes(line, "For help")
             st2 == IF ready
                    THEN [h |-> h2, d |-> IoEmit(d2, "status", "running"),
                          status |-> "running"]
                    ELSE [h |-> h2, d |-> d2, status |-> st.status]
         IN StdoutLines(Tail(lines), st2)

\* lines.forEach of the stderr handler, on [h, d]
RECURSIVE StderrLines(_, _)
StderrLines(lines, st) ==
    IF lines = <<>> THEN st
    ELSE LET line == ErrLine(Head(lines))
         IN StderrLines(Tail(lines),
                        [h |-> PushHistory(st.h, line),
                         d |-> IoEmit(st.d, "console", line)])

\* .filter(l => l.trim())
FilterLines(chunk) == SelectSeq(chunk, NonBlank)

\* ------------------------------------------------------------ dashboard
\* the events app.js has a handler for; a click is the only thing that makes
\* the dashboard send 'start', 'stop', 'restart' or 'command'
ClientHandles == {"status", "console", "history", "properties"}

\* a line the supervisor wrote itself: a notice or a command echo
OwnLine(line) == line[1] = "[Manager]" \/ line[1] = ">"

\* socket.on('status'): the status shown after the events evs
RECURSIVE StatusAfter(_, _)
StatusAfter(evs, shown) ==
    IF evs = <<>> THEN shown
    ELSE StatusAfter(Tail(evs),
                     IF EvName(Head(evs)) = "status" THEN EvData(Head(evs))
                     ELSE shown)

\* socket.on('history') and socket.on('console'): the output lines among evs
RECURSIVE OutputLines(_)
OutputLines(evs) ==
    IF evs = <<>> THEN <<>>
    ELSE LET e == Head(evs)
         IN (IF EvName(e) = "history" THEN EvData(e)
             ELSE IF EvName(e) = "console" /\ ~OwnLine(EvData(e))
                  THEN <<EvData(e)>>
             ELSE <<>>) \o OutputLines(Tail(evs))

\* the handler sent em: what each connection has now been sent
Send(em) ==
    /\ emitted' = em
    /\ statusSeen' = [s \in Sockets |-> StatusAfter(em[s], statusSeen[s])]
    /\ linesSeen' = [s \in Sockets |-> linesSeen[s] \o OutputLines(em[s])]

\* ------------------------------------------------------------------ Init
Last(op, id, arg) == [op |-> op, id |-> id, arg |-> arg]

InitWith(budget) ==
    /\ minecraftProcess = NoProc
    /\ serverStatus = "stopped"
    /\ consoleHistory = <<>>
    /\ proc = [p \in Launches |-> "none"]
    /\ closeListeners = [p \in Launches |-> <<>>]
    /\ timers = <<>>
    /\ stdin = [p \in Launches |-> <<>>]
    /\ sock = [s \in Sockets |-> "fresh"]
    /\ emitted = EmitNone
    /\ statusSeen = [s \in Sockets |-> "none"]
    /\ linesSeen = [s \in Sockets |-> <<>>]
    /\ inserted = 0
    /\ connAt = [s \in Sockets |-> 0]
    /\ ctlLeft = budget
    /\ lastEvent = Last("init", 0, 0)

Init == InitWith(MaxCtl)

\* the launch a spawn() now would create
NextLaunch == Cardinality({p \in Launches : proc[p] # "none"}) + 1

\* the socket a connection now would create
NextSocket == Cardinality({s \in Sockets : sock[s] # "fresh"}) + 1

\* -------------------------------------------------------------- handlers
\* Connection with io.emit for the status: every viewer is sent it
ConnectionBroadcast(s, file) ==
    /\ s = NextSocket
    /\ sock' = [sock EXCEPT ![s] = "connected"]
    /\ Send([IoEmit(EmitNone, "status", serverStatus) EXCEPT ![s] =
           <<Ev("status", serverStatus), Ev("history", consoleHistory),
             Ev("properties", getServerProperties(file))>>])
    /\ connAt' = [connAt EXCEPT ![s] = inserted]
    /\ lastEvent' = Last("connection", s, file)
    /\ UNCHANGED <<minecraftProcess, serverStatus, consoleHistory,
                   proc, closeListeners, timers, stdin, inserted, ctlLeft>>

\* Connection with slice(1) on the history: its oldest line is not sent
ConnectionSlice(s, file) ==
    /\ s = NextSocket
    /\ sock' = [sock EXCEPT ![s] = "connected"]
    /\ Send([EmitNone EXCEPT ![s] =
           <<Ev("status", serverStatus),
             Ev("history", IF consoleHistory = <<>> THEN <<>>
                           ELSE Tail(consoleHistory)),
             Ev("properties", getServerProperties(file))>>])
    /\ connAt' = [connAt EXCEPT ![s] = inserted]
    /\ lastEvent' = Last("connection", s, file)
    /\ UNCHANGED <<minecraftProcess, serverStatus, consoleHistory,
                   proc, closeListeners, timers, stdin, inserted, ctlLeft>>

\* io.on('connection')
Connection(s, file) ==
    /\ s = NextSocket
    /\ sock' = [sock EXCEPT ![s] = "connected"]
    /\ Send([EmitNone EXCEPT ![s] =
           <<Ev("status", serverStatus), Ev("history", consoleHistory),
             Ev("properties", getServerProperties(file))>>])
    /\ connAt' = [connAt EXCEPT ![s] = inserted]
    /\ lastEvent' = Last("connection", s, file)
    /\ UNCHANGED <<minecraftProcess, serverStatus, consoleHistory,
                   proc, closeListeners, timers, stdin, inserted, ctlLeft>>

\* Disconnect that tells the other viewers and drops the restart in flight
DisconnectNotify(s) ==
    /\ sock[s] = "connected"
    /\ sock' = [sock EXCEPT ![s] = "closed"]
    /\ emitted' = [o \in Sockets |->
                      IF o # s /\ sock[o] = "connected"
                      THEN <<Ev("console", <<"[Manager]", "Client disconnected">>)>>
                      ELSE <<>>]
    /\ statusSeen' = [statusSeen EXCEPT ![s] = "none"]
    /\ linesSeen' = [linesSeen EXCEPT ![s] = <<>>]
    /\ connAt' = [connAt EXCEPT ![s] = 0]
    /\ lastEvent' = Last("disconnect", s, 0)
    /\ UNCHANGED <<minecraftProcess, serverStatus, consoleHistory,
                   proc, closeListeners, timers, stdin, inserted, ctlLeft>>

\* socket.on('disconnect'): only logs; the connection is gone
Disconnect(s) ==
    /\ sock[s] = "connected"
    /\ sock' = [sock EXCEPT ![s] = "closed"]
    /\ emitted' = EmitNone
    /\ statusSeen' = [statusSeen EXCEPT ![s] = "none"]
    /\ linesSeen' = [linesSeen EXCEPT ![s] = <<>>]
    /\ connAt' = [connAt EXCEPT ![s] = 0]
    /\ lastEvent' = Last("disconnect", s, 0)
    /\ UNCHANGED <<minecraftProcess, serverStatus, consoleHistory,
                   proc, closeListeners, timers, stdin, inserted, ctlLeft>>

\* socket.on('start'), a handle exists: the notice, and return
StartRefused(s) ==
    /\ ctlLeft > 0
    /\ ctlLeft' = ctlLeft - 1
    /\ Send(SocketEmit(EmitNone, s, "console", AlreadyRunning))
    /\ lastEvent' = Last("start", s, 0)
    /\ UNCHANGED <<minecraftProcess, serverStatus, consoleHistory,
                   proc, closeListeners, timers, stdin, sock, inserted,
                   connAt>>

\* socket.on('start'), past the check: spawn() either starts the process or
\* fails, and the four listeners are added to the new process
Spawn(s, ok) ==
    /\ ctlLeft > 0
    /\ ctlLeft' = ctlLeft - 1
    /\ serverStatus' = "starting"
    /\ Send(IoEmit(IoEmit(EmitNone, "status", "starting"),
                   "console", StartingNotice))
    /\ minecraftProcess' = NextLaunch
    /\ proc' = [proc EXCEPT ![NextLaunch] = IF ok THEN "running" ELSE "failed"]
    /\ lastEvent' = Last("start", s, NextLaunch)
    /\ UNCHANGED <<consoleHistory, closeListeners, timers, stdin,
                   sock, inserted,
                   connAt>>

\* Start without the check for an existing handle
StartNoGuard(s) ==
    /\ sock[s] = "connected"
    /\ \E ok \in BOOLEAN : Spawn(s, ok)

\* socket.on('start')
Start(s) ==
    /\ sock[s] = "connected"
    /\ IF minecraftProcess # NoProc
       THEN StartRefused(s)
       ELSE \E ok \in BOOLEAN : Spawn(s, ok)

\* minecraftProcess.stdout.on('data')
StdoutData(p, chunk) ==
    /\ proc[p] = "running"
    /\ LET r == StdoutLines(FilterLines(chunk),
                            [h |-> consoleHistory, d |-> EmitNone,
                             status |-> serverStatus])
       IN /\ consoleHistory' = r.h
          /\ Send(r.d)
          /\ serverStatus' = r.status
    /\ inserted' = inserted + Len(FilterLines(chunk))
    /\ lastEvent' = Last("stdout", p, Len(FilterLines(chunk)))
    /\ UNCHANGED <<minecraftProcess, proc, closeListeners, timers,
                   stdin, sock, ctlLeft,
                   connAt>>

\* minecraftProcess.stderr.on('data')
StderrData(p, chunk) ==
    /\ proc[p] = "running"
    /\ LET r == StderrLines(FilterLines(chunk),
                            [h |-> consoleHistory, d |-> EmitNone])
       IN /\ consoleHistory' = r.h
          /\ Send(r.d)
    /\ inserted' = inserted + Len(FilterLines(chunk))
    /\ lastEvent' = Last("stderr", p, Len(FilterLines(chunk)))
    /\ UNCHANGED <<minecraftProcess, serverStatus, proc,
                   closeListeners, timers, stdin, sock, ctlLeft,
                   connAt>>

\* OnClose that leaves the status alone when a restart is under way
OnCloseKeepRestarting(p, code) ==
    /\ \/ proc[p] = "running" /\ code \in ExitCodes
       \/ proc[p] = "errored" /\ code \in SpawnFailCodes
    /\ proc' = [proc EXCEPT ![p] = "closed"]
    /\ IF serverStatus = "restarting"
       THEN /\ Send(IoEmit(EmitNone, "console", StoppedNotice(code)))
            /\ UNCHANGED serverStatus
       ELSE /\ Send(IoEmit(IoEmit(EmitNone, "console", StoppedNotice(code)),
                           "status", "stopped"))
            /\ serverStatus' = "stopped"
    /\ minecraftProcess' = NoProc
    /\ timers' = timers \o closeListeners[p]
    /\ closeListeners' = [closeListeners EXCEPT ![p] = <<>>]
    /\ stdin' = [stdin EXCEPT ![p] = <<>>]
    /\ lastEvent' = Last("close", p, code)
    /\ UNCHANGED <<consoleHistory, sock, inserted, ctlLeft, connAt>>

\* minecraftProcess.on('close'): the listener start() added, then the
\* listeners restart() added to this process, in the order they were added
OnClose(p, code) ==
    /\ \/ proc[p] = "running" /\ code \in ExitCodes
       \/ proc[p] = "errored" /\ code \in SpawnFailCodes
    /\ proc' = [proc EXCEPT ![p] = "closed"]
    /\ Send(IoEmit(IoEmit(EmitNone, "console", StoppedNotice(code)),
                   "status", "stopped"))
    /\ serverStatus' = "stopped"
    /\ minecraftProcess' = NoProc
    /\ timers' = timers \o closeListeners[p]
    /\ closeListeners' = [closeListeners EXCEPT ![p] = <<>>]
    /\ stdin' = [stdin EXCEPT ![p] = <<>>]
    /\ lastEvent' = Last("close", p, code)
    /\ UNCHANGED <<consoleHistory,  sock, inserted, ctlLeft,
                   connAt>>

\* OnError that leaves the handle of the failed launch in place
OnErrorKeepHandle(p) ==
    /\ proc[p] = "failed"
    /\ proc' = [proc EXCEPT ![p] = "errored"]
    /\ Send(IoEmit(IoEmit(EmitNone, "console", ErrorNotice),
                   "status", "stopped"))
    /\ serverStatus' = "stopped"
    /\ lastEvent' = Last("error", p, 0)
    /\ UNCHANGED <<minecraftProcess, consoleHistory, closeListeners, timers,
                   stdin, sock, inserted, ctlLeft, connAt>>

\* minecraftProcess.on('error'): the spawn failed
OnError(p) ==
    /\ proc[p] = "failed"
    /\ proc' = [proc EXCEPT ![p] = "errored"]
    /\ Send(IoEmit(IoEmit(EmitNone, "console", ErrorNotice),
                   "status", "stopped"))
    /\ serverStatus' = "stopped"
    /\ minecraftProcess' = NoProc
    /\ lastEvent' = Last("error", p, 0)
    /\ UNCHANGED <<consoleHistory,  closeListeners, timers, stdin,
                   sock, inserted, ctlLeft,
                   connAt>>

\* Stop that moves to stopping and broadcasts before it looks at the handle
StopEager(s) ==
    /\ sock[s] = "connected"
    /\ ctlLeft > 0
    /\ ctlLeft' = ctlLeft - 1
    /\ lastEvent' = Last("stop", s, 0)
    /\ serverStatus' = "stopping"
    /\ IF minecraftProcess = NoProc
       THEN /\ Send(SocketEmit(IoEmit(EmitNone, "status", "stopping"),
                               s, "console", NotRunning))
            /\ UNCHANGED stdin
       ELSE /\ Send(IoEmit(IoEmit(EmitNone, "status", "stopping"),
                           "console", StoppingNotice))
            /\ stdin' = [stdin EXCEPT ![minecraftProcess] =
                             Append(@, <<"stop", "\n">>)]
    /\ UNCHANGED <<minecraftProcess, consoleHistory, proc,
                   closeListeners, timers, sock, inserted,
                   connAt>>

\* socket.on('stop')
Stop(s) ==
    /\ sock[s] = "connected"
    /\ ctlLeft > 0
    /\ ctlLeft' = ctlLeft - 1
    /\ lastEvent' = Last("stop", s, 0)
    /\ IF minecraftProcess = NoProc
       THEN /\ Send(SocketEmit(EmitNone, s, "console", NotRunning))
            /\ UNCHANGED <<serverStatus, stdin>>
       ELSE /\ serverStatus' = "stopping"
            /\ Send(IoEmit(IoEmit(EmitNone, "status", "stopping"),
                           "console", StoppingNotice))
            /\ stdin' = [stdin EXCEPT ![minecraftProcess] =
                             Append(@, <<"stop", "\n">>)]
    /\ UNCHANGED <<minecraftProcess, consoleHistory, proc,
                   closeListeners, timers, sock, inserted,
                   connAt>>

\* Command that writes the text without the line terminator
CommandNoTerminator(s, cmd) ==
    /\ sock[s] = "connected"
    /\ ctlLeft > 0
    /\ ctlLeft' = ctlLeft - 1
    /\ lastEvent' = Last("command", s, 0)
    /\ IF minecraftProcess = NoProc
       THEN /\ Send(SocketEmit(EmitNone, s, "console", NotRunning))
            /\ UNCHANGED stdin
       ELSE /\ Send(IoEmit(EmitNone, "console", Echo(cmd)))
            /\ stdin' = [stdin EXCEPT ![minecraftProcess] =
                             Append(@, <<cmd>>)]
    /\ UNCHANGED <<minecraftProcess, serverStatus, consoleHistory,
                   proc, closeListeners, timers, sock, inserted,
                   connAt>>

\* socket.on('command')
Command(s, cmd) ==
    /\ sock[s] = "connected"
    /\ ctlLeft > 0
    /\ ctlLeft' = ctlLeft - 1
    /\ lastEvent' = Last("command", s, 0)
    /\ IF minecraftProcess = NoProc
       THEN /\ Send(SocketEmit(EmitNone, s, "console", NotRunning))
            /\ UNCHANGED stdin
       ELSE /\ Send(IoEmit(EmitNone, "console", Echo(cmd)))
            /\ stdin' = [stdin EXCEPT ![minecraftProcess] =
                             Append(@, <<cmd, "\n">>)]
    /\ UNCHANGED <<minecraftProcess, serverStatus, consoleHistory,
                   proc, closeListeners, timers, sock, inserted,
                   connAt>>

\* socket.on('restart')
Restart(s) ==
    /\ sock[s] = "connected"
    /\ ctlLeft > 0
    /\ ctlLeft' = ctlLeft - 1
    /\ lastEvent' = Last("restart", s, 0)
    /\ IF minecraftProcess # NoProc
       THEN /\ serverStatus' = "restarting"
            /\ Send(IoEmit(IoEmit(EmitNone, "status", "restarting"),
                           "console", RestartingNotice))
            /\ stdin' = [stdin EXCEPT ![minecraftProcess] =
                             Append(@, <<"stop", "\n">>)]
            /\ closeListeners' = [closeListeners EXCEPT ![minecraftProcess] =
                                      Append(@, s)]
       ELSE /\ Send(SocketEmit(EmitNone, s, "start", <<>>))
            /\ UNCHANGED <<serverStatus, stdin, closeListeners>>
    /\ UNCHANGED <<minecraftProcess, consoleHistory, proc, timers,
                   sock, inserted,
                   connAt>>

\* the setTimeout callback of restart: socket.emit('start') after 2000 ms
RestartTimer ==
    /\ timers # <<>>
    /\ timers' = Tail(timers)
    /\ Send(SocketEmit(EmitNone, Head(timers), "start", <<>>))
    /\ lastEvent' = Last("timer", Head(timers), 0)
    /\ UNCHANGED <<minecraftProcess, serverStatus, consoleHistory,
                   proc, closeListeners, stdin, sock, inserted, ctlLeft,
                   connAt>>

\* ------------------------------------------------------- specifications
Next ==
    \/ \E s \in Sockets, file \in PropsFiles : Connection(s, file)
    \/ \E s \in Sockets : Disconnect(s)
    \/ \E s \in Sockets : Start(s)
    \/ \E s \in Sockets : Stop(s)
    \/ \E s \in Sockets : Restart(s)
    \/ \E s \in Sockets, cmd \in Commands : Command(s, cmd)
    \/ \E p \in Launches, chunk \in ChunksOf(OutLines) :
          inserted + Len(FilterLines(chunk)) <= MaxLines /\ StdoutData(p, chunk)
    \/ \E p \in Launches, chunk \in ChunksOf(ErrLines) :
          inserted + Len(FilterLines(chunk)) <= MaxLines /\ StderrData(p, chunk)
    \/ \E p \in Launches, code \in ExitCodes \cup SpawnFailCodes : OnClose(p, code)
    \/ \E p \in Launches : OnError(p)
    \/ RestartTimer

Spec == Init /\ [][Next]_vars

\* the same program, the viewers sending one more control event
InitWide == InitWith(MaxCtl + 1)

SpecWide == InitWide /\ [][Next]_vars

\* A long run of output with no viewer connected: the child's k-th line is
\* "line k", on stdout, or on stderr when k is in ErrSlots.
NumLine(k) == <<"line", ToString(k)>>
ErrSlots == {1, 2, MAX_HISTORY, MAX_HISTORY + 1}
NoViewer == \A s \in Sockets : sock[s] # "connected"

HistOut(p, n) ==
    /\ NoViewer
    /\ inserted + n <= HistLines
    /\ StdoutData(p, [i \in 1..n |-> NumLine(inserted + i)])

HistErr(p) ==
    /\ NoViewer
    /\ inserted + 1 <= HistLines
    /\ inserted + 1 \in ErrSlots
    /\ StderrData(p, <<NumLine(inserted + 1)>>)

NextHist ==
    \/ Connection(1, SampleFile)
    \/ sock[1] = "connected" /\ minecraftProcess = NoProc /\ Spawn(1, TRUE)
    \/ Disconnect(1)
    \/ \E p \in Launches, n \in 1..MaxChunk : HistOut(p, n)
    \/ \E p \in Launches : HistErr(p)

SpecHist == Init /\ [][NextHist]_vars

\* connections only, over every test file
NextProps ==
    \/ \E s \in Sockets, file \in TestFiles : Connection(s, file)
    \/ \E s \in Sockets : Disconnect(s)

SpecProps == Init /\ [][NextProps]_vars

\* ================================================================ claims
Connected(s) == sock[s] = "connected"

\* the step is the handler op, run for socket or launch id
Ran(op, id) == lastEvent'.op = op /\ lastEvent'.id = id

\* C1: a start received while a handle exists spawns nothing, leaves the
\* handle, the status and the console history as they were, and sends exactly
\* one notice, to the caller, and nothing to anyone else.
C1_StartWithHandle ==
    [][\A s \in Sockets :
         (Ran("start", s) /\ minecraftProcess # NoProc) =>
            /\ minecraftProcess' = minecraftProcess
            /\ proc' = proc
            /\ serverStatus' = serverStatus
            /\ consoleHistory' = consoleHistory
            /\ emitted' = [EmitNone EXCEPT ![s] = <<Ev("console", AlreadyRunning)>>]
      ]_vars

\* a start was just refused: the handle is still there, the caller has its notice
C1_Witness ==
    /\ lastEvent.op = "start"
    /\ lastEvent.arg = 0
    /\ minecraftProcess # NoProc
    /\ proc[minecraftProcess] = "running"
    /\ emitted[lastEvent.id] = <<Ev("console", AlreadyRunning)>>

C3_AfterClose ==
    lastEvent.op = "close" =>
        serverStatus = "stopped" /\ minecraftProcess = NoProc

\* a child that was told to restart exited with code 1: the close was handled
\* (its delayed callback is pending) while the status was not stopped
C3_Witness ==
    /\ lastEvent.op = "close"
    /\ lastEvent.arg = 1
    /\ timers # <<>>
    /\ serverStatus = "stopped"
    /\ minecraftProcess = NoProc

\* C4: in a run whose control events are one start and then one stop, once
\* stop has set the status to stopping it stays stopping until the close
\* event, and the next status is stopped, whatever the child prints.
C4_StoppingUntilExit ==
    [][(serverStatus = "stopping" /\ MaxCtl - ctlLeft = 2 /\ ctlLeft' = ctlLeft)
          => serverStatus' \in {"stopping", "stopped"}
      ]_vars

\* C5: after a restart with a handle, once the child's close event has been
\* handled, the delayed callback of the restart launches a new child: a new
\* handle exists and the status is starting again.
C5_RestartRelaunches ==
    [][(lastEvent'.op = "timer" /\ minecraftProcess = NoProc)
          => minecraftProcess' # NoProc /\ serverStatus' = "starting"
      ]_vars

\* C6: a restart received while no handle exists does what start does there:
\* a child is launched, the handle is set, the status is starting and every
\* connected viewer is sent it.
C6_RestartAsStart ==
    [][\A s \in Sockets :
         (Ran("restart", s) /\ minecraftProcess = NoProc) =>
            /\ minecraftProcess' # NoProc
            /\ proc'[minecraftProcess'] \in {"running", "failed"}
            /\ serverStatus' = "starting"
            /\ \A o \in Sockets : Connected(o) => statusSeen'[o] = "starting"
      ]_vars

\* the k-th line the child printed, as the history holds it
IsLine(entry, k) == entry = NumLine(k) \/ entry = ErrLine(NumLine(k))

\* C7: the history holds at most MAX_HISTORY lines and is, in arrival order,
\* the last min(n, MAX_HISTORY) of the n lines inserted so far.
C7_HistoryIsRecent ==
    /\ Len(consoleHistory) = Min(inserted, MAX_HISTORY)
    /\ \A i \in 1..Len(consoleHistory) :
          IsLine(consoleHistory[i], inserted - Len(consoleHistory) + i)

\* MAX_HISTORY + 1 lines went in: the first is gone, the length is MAX_HISTORY
C7_Witness ==
    /\ inserted = MAX_HISTORY + 1
    /\ Len(consoleHistory) = MAX_HISTORY
    /\ \A i \in 1..Len(consoleHistory) : ~IsLine(consoleHistory[i], 1)
    /\ IsLine(consoleHistory[1], 2)
    /\ consoleHistory[MAX_HISTORY] = ErrLine(NumLine(MAX_HISTORY + 1))

\* C8: a connected viewer has been sent the history as it was when it
\* connected and then every later line once, in arrival order: the output
\* lines it was sent are the lines inserted so far (none evicted yet).
C8_HistoryThenLive ==
    \A s \in Sockets :
        (Connected(s) /\ inserted <= MAX_HISTORY) =>
            /\ linesSeen[s] = consoleHistory
            /\ connAt[s] <= Len(linesSeen[s])

\* the second viewer connected when one line was buffered, and a line came after
C8_Witness ==
    /\ Connected(2)
    /\ connAt[2] = 1
    /\ inserted = 2
    /\ Len(linesSeen[2]) = 2
    /\ linesSeen[2][1] # linesSeen[2][2]

\* C9: after every handler, each connected viewer's last status is the
\* supervisor's status.
C9_StatusBroadcast ==
    \A s \in Sockets : Connected(s) => statusSeen[s] = serverStatus

\* a ready line has just set the status to running, two viewers connected
C9_Witness ==
    /\ Connected(1) /\ Connected(2)
    /\ lastEvent.op = "stdout"
    /\ serverStatus = "running"
    /\ statusSeen[1] = "running" /\ statusSeen[2] = "running"
    /\ emitted[2] # <<>>

\* C10: a connection sends the status, the whole history and a configuration
\* snapshot to the connecting viewer, nothing to any other viewer, and leaves
\* the status, the handle and the history as they were.
C10_ConnectionPush ==
    [][\A s \in Sockets :
         Ran("connection", s) =>
            /\ \E file \in PropsFiles :
                  emitted'[s] = <<Ev("status", serverStatus),
                                  Ev("history", consoleHistory),
                                  Ev("properties", getServerProperties(file))>>
            /\ \A o \in Sockets \ {s} : emitted'[o] = <<>>
            /\ serverStatus' = serverStatus
            /\ minecraftProcess' = minecraftProcess
            /\ consoleHistory' = consoleHistory
      ]_vars

\* the second viewer has just connected, the first still connected, a child
\* running and a line buffered
C10_Witness ==
    /\ lastEvent.op = "connection"
    /\ lastEvent.id = 2
    /\ Connected(1)
    /\ minecraftProcess # NoProc
    /\ consoleHistory # <<>>
    /\ emitted[2][2] = Ev("history", consoleHistory)
    /\ emitted[1] = <<>>

\* C11: a disconnect leaves the status, the handle, the history, the child
\* and the restart in flight as they were and sends nothing to anyone; the
\* child stays supervised whoever is still connected: its close is handled,
\* and every viewer then connected is sent the exit notice and the status.
C11_DisconnectFrame ==
    [][/\ \A s \in Sockets :
             Ran("disconnect", s) =>
                /\ serverStatus' = serverStatus
                /\ minecraftProcess' = minecraftProcess
                /\ consoleHistory' = consoleHistory
                /\ proc' = proc
                /\ closeListeners' = closeListeners
                /\ timers' = timers
                /\ stdin' = stdin
                /\ emitted' = EmitNone
       /\ lastEvent'.op = "close" =>
             /\ serverStatus' = "stopped"
             /\ \A o \in Sockets :
                   Connected(o) =>
                      emitted'[o] = <<Ev("console", StoppedNotice(lastEvent'.arg)),
                                      Ev("status", "stopped")>>
      ]_vars

\* the first viewer sent a restart and left; the child then exited, and the
\* second viewer was sent the exit notice and the status
C11_Witness ==
    /\ lastEvent.op = "close"
    /\ sock[1] = "closed"
    /\ Connected(2)
    /\ timers = <<1>>
    /\ statusSeen[2] = "stopped"
    /\ emitted[2] = <<Ev("console", StoppedNotice(lastEvent.arg)),
                      Ev("status", "stopped")>>

\* the entries the file's description promises: a line that is blank or
\* begins with # gives none; any other line gives its text before the first
\* = mapped to its text after it
FirstEq(line) ==
    IF \E i \in 1..Len(line) : line[i] = "="
    THEN CHOOSE i \in 1..Len(line) :
            line[i] = "=" /\ \A j \in 1..(i - 1) : line[j] # "="
    ELSE Len(line) + 1

ClaimedLine(props, line) ==
    IF Trim(line) = <<>> \/ line[1] = "#" \/ Trim(SubSeq(line, 1, FirstEq(line) - 1)) = <<>>
    THEN props
    ELSE PutProp(props,
                 Trim(SubSeq(line, 1, FirstEq(line) - 1)),
                 Trim(SubSeq(line, FirstEq(line) + 1, Len(line))))

RECURSIVE ClaimedLines(_, _)
ClaimedLines(props, lines) ==
    IF lines = <<>> THEN props
    ELSE ClaimedLines(ClaimedLine(props, Head(lines)), Tail(lines))

\* C12: the configuration a connecting viewer is sent has an entry for exactly
\* the non-blank, non-comment lines of the file, each split on its first =.
C12_ConfigEntries ==
    (lastEvent.op = "connection" /\ lastEvent.arg.exists) =>
        EvData(emitted[lastEvent.id][3]) =
            ClaimedLines(EmptyProps, Split(lastEvent.arg.content, "\n"))

\* C13: a stop or a command received while no handle is held changes neither
\* the status, the handle nor the history, writes to no process input,
\* broadcasts nothing, and sends the caller exactly one notice.
C13_NoHandleNoOp ==
    [][\A s \in Sockets :
         ((Ran("stop", s) \/ Ran("command", s)) /\ minecraftProcess = NoProc) =>
            /\ serverStatus' = serverStatus
            /\ minecraftProcess' = NoProc
            /\ consoleHistory' = consoleHistory
            /\ stdin' = stdin
            /\ proc' = proc
            /\ emitted' = [EmitNone EXCEPT ![s] = <<Ev("console", NotRunning)>>]
      ]_vars

\* a stop came in with no handle held while another viewer was connected:
\* the caller has the notice and the other viewer has nothing
C13_Witness ==
    /\ lastEvent.op = "stop"
    /\ minecraftProcess = NoProc
    /\ serverStatus = "stopped"
    /\ Connected(1) /\ Connected(2)
    /\ emitted[lastEvent.id] = <<Ev("console", NotRunning)>>
    /\ \E o \in Sockets : o # lastEvent.id /\ emitted[o] = <<>>

\* C14: once a close event is handled, the notice naming the exit code is the
\* newest line of the console history (so a later connection is sent it).
C14_ExitNoticeInHistory ==
    lastEvent.op = "close" =>
        /\ consoleHistory # <<>>
        /\ consoleHistory[Len(consoleHistory)] = StoppedNotice(lastEvent.arg)

\* C15: when the launch fails, every connected viewer is sent the error
\* notice and the status stopped, the status is stopped and the handle is
\* cleared; the next start is then accepted and launches a new process.
C15_LaunchFailure ==
    [][/\ lastEvent'.op = "error" =>
             /\ serverStatus' = "stopped"
             /\ minecraftProcess' = NoProc
             /\ \A o \in Sockets :
                   Connected(o) =>
                      emitted'[o] = <<Ev("console", ErrorNotice),
                                      Ev("status", "stopped")>>
       /\ \A s \in Sockets :
             (Ran("start", s) /\ lastEvent.op = "error") =>
                /\ minecraftProcess' \in Launches
                /\ minecraftProcess' # lastEvent.id
                /\ proc[minecraftProcess'] = "none"
                /\ proc'[minecraftProcess'] \in {"running", "failed"}
                /\ serverStatus' = "starting"
                /\ emitted'[s] = <<Ev("status", "starting"),
                                   Ev("console", StartingNotice)>>
      ]_vars

\* the first launch failed and its error was handled; the start that followed
\* launched a second process, which runs
C15_Witness ==
    /\ lastEvent.op = "start"
    /\ lastEvent.arg = 2
    /\ proc[1] = "errored"
    /\ proc[2] = "running"
    /\ minecraftProcess = 2
    /\ serverStatus = "starting"

\* C16: a restart received while the status is already restarting changes
\* nothing: no further stop is written, no further delayed start is
\* registered, the status and the handle stay.
C16_RestartWhileRestarting ==
    [][\A s \in Sockets :
         (Ran("restart", s) /\ serverStatus = "restarting"
                            /\ minecraftProcess # NoProc) =>
            /\ stdin' = stdin
            /\ closeListeners' = closeListeners
            /\ timers' = timers
            /\ serverStatus' = "restarting"
            /\ minecraftProcess' = minecraftProcess
      ]_vars

\* C17: a command received while a handle is held is echoed, prefixed with >,
\* to every connected viewer, and is written with a line terminator at the
\* end of the child's input, after everything written before it: the input
\* is the commands in the order they arrived, each once. The status, the
\* handle and the history stay.
C17_CommandForwarded ==
    [][\A s \in Sockets :
         (Ran("command", s) /\ minecraftProcess # NoProc) =>
            \E cmd \in Commands :
               /\ stdin' = [stdin EXCEPT ![minecraftProcess] =
                                Append(@, <<cmd, "\n">>)]
               /\ \A o \in Sockets :
                     emitted'[o] = IF Connected(o)
                                   THEN <<Ev("console", Echo(cmd))>>
                                   ELSE <<>>
               /\ serverStatus' = serverStatus
               /\ minecraftProcess' = minecraftProcess
               /\ consoleHistory' = consoleHistory
      ]_vars

\* the two viewers each sent a command, the first one say hi and then the
\* second one list: the child's input holds them in that order, and both
\* viewers were sent the echo of the second
C17_Witness ==
    /\ lastEvent.op = "command"
    /\ lastEvent.id = 2
    /\ minecraftProcess = 1
    /\ stdin[1] = <<<<"say hi", "\n">>, <<"list", "\n">>>>
    /\ emitted[1] = <<Ev("console", Echo("list"))>>
    /\ emitted[2] = <<Ev("console", Echo("list"))>>

\* C18: when the read of the configuration file fails, the connection is
\* still handled: the viewer is sent the status, the history and an empty
\* configuration, in that order and nothing else.
C18_ReadFailure ==
    (lastEvent.op = "connection" /\ ~lastEvent.arg.exists) =>
        /\ Connected(lastEvent.id)
        /\ emitted[lastEvent.id] = <<Ev("status", serverStatus),
                                     Ev("history", consoleHistory),
                                     Ev("properties", EmptyProps)>>

\* a viewer connected while the server was running and had output, and the
\* properties file could not be read
C18_Witness ==
    /\ lastEvent.op = "connection"
    /\ ~lastEvent.arg.exists
    /\ serverStatus = "running"
    /\ consoleHistory # <<>>
    /\ emitted[lastEvent.id][3] = Ev("properties", EmptyProps)

====
